---- MODULE Spec2Model ----
(***************************************************************************)
(* A model of telegram/ext/_jobqueue.py: the JobQueue, its Jobs, the       *)
(* entries the JobQueue keeps in the APScheduler AsyncIOScheduler, and     *)
(* the executions of Job.run.                                              *)
(*                                                                         *)
(* The scheduler is the external timer engine.  It is modelled by what     *)
(* the calls made in _jobqueue.py do to its in-memory job store and to     *)
(* the apscheduler.job.Job handle each telegram.ext.Job holds: add_job,    *)
(* Job.remove, Job.pause, Job.resume, get_jobs, start, shutdown and the    *)
(* handle attribute next_run_time.  Wall-clock time is abstract: an        *)
(* active entry of a running scheduler may become due at any step.         *)
(***************************************************************************)
EXTENDS Integers, Sequences, FiniteSets, TLC

\* ---------------------------------------------------------------- bounds
\* Number of Job objects the callers create through the queue.
NJobs == 1
JobIds == 1..NJobs

\* Time is counted in ticks; a calendar day has DayLen of them.
DayLen == 3

\* The days over which the clock of the time computations ranges.
NDays == 2

VARIABLES
    running,     \* JobQueue.scheduler.running
    dispatcher,  \* JobQueue._dispatcher: "unset", or a weak reference "alive" / "dead"
    jobs,        \* the Job objects, with the scheduler entry each one wraps
    runs,        \* the executions of Job.run
    lastCall     \* the last call made on the public surface, and how it ended

vars == <<running, dispatcher, jobs, runs, lastCall>>

\* ---------------------------------------------------------------- time
\* An instant is a number of ticks on the UTC time line.  A timezone is its
\* offset from UTC in ticks; the wall clock of a zone reads instant + offset.
\* A datetime value is aware (v is its instant) or naive (v is a wall-clock
\* reading without zone); a time-of-day value is v ticks after midnight, in
\* the zone off when aware.
Zones == {-1, 0, 1}

TimeOfDay == 0..(DayLen - 1)

\* The clock readings: the days 1..NDays of the UTC calendar.
Instants == DayLen..((NDays + 1) * DayLen - 1)

\* The instant of the run_* calls: one tick after midnight of day 1, UTC.
ApiNow == DayLen + 1

\* The zone of the scheduler of the run_* calls: UTC, as __init__ leaves it.
ApiZone == 0

NoTime == [kind |-> "none", aware |-> FALSE, v |-> 0, off |-> 0]

Seconds(n) == [kind |-> "seconds", aware |-> FALSE, v |-> n, off |-> 0]

DateTime(aware, v) == [kind |-> "datetime", aware |-> aware, v |-> v, off |-> 0]

Time(aware, v, off) == [kind |-> "time", aware |-> aware, v |-> v, off |-> off]

\* ----------------------------------------------------------------- Job
\* A slot of `jobs` before the caller has created its Job.
NoJob ==
    [st |-> "none", api |-> "none", kind |-> "none", removed |-> FALSE,
     enabled |-> FALSE, nrt |-> "unset", fired |-> FALSE,
     name |-> "", handle |-> 0, func |-> 0, start |-> 0]

\* The __name__ of the callback the callers pass.
CallbackName == "cb"

\* The name arguments the callers pass: no name (None), the empty string,
\* and a name of their own.
NameArgs == {"None", "", "n"}

\* name or callback.__name__: None and the empty string are both falsy.
JobName(name) == IF name \in {"None", ""} THEN CallbackName ELSE name

\* Job.__init__: name or callback.__name__, _removed and _enabled start
\* False, and job is None (handle 0) until the queue attaches the handle.
JobInit(name) ==
    [st |-> "none", api |-> "none", kind |-> "none", removed |-> FALSE,
     enabled |-> FALSE, nrt |-> "unset", fired |-> FALSE,
     name |-> JobName(name), handle |-> 0, func |-> 0, start |-> 0]

\* add_job as it would be if the queue never attached the handle it returns.
AddJobNoHandle(job, j, api, trigger) ==
    [job EXCEPT !.st = "active", !.api = api, !.kind = trigger,
                !.nrt = IF running THEN "time" ELSE "unset",
                !.func = j]

\* scheduler.add_job(job, ...) followed by job.job = j, for the Job in slot
\* j: the entry is registered (st = "active") with the Job as its func, and
\* the handle of that entry is attached to the Job.  A stopped scheduler
\* keeps the entry pending and the handle has no next_run_time attribute yet.
\* start is the start_date of an interval trigger, 0 for none.
AddJob(job, j, api, trigger) ==
    [job EXCEPT !.st = "active", !.api = api, !.kind = trigger,
                !.nrt = IF running THEN "time" ELSE "unset",
                !.func = j, !.handle = j]

\* scheduler.get_jobs(): the entries of the job store, paused ones included.
Entries == {j \in DOMAIN jobs : jobs[j].st \in {"active", "paused"}}

\* Job._from_aps_job(entry): the func of the entry, which is the Job.
FromApsJob(e) == jobs[e].func

\* JobQueue.jobs(): Job._from_aps_job of every entry.
JobsQuery == {FromApsJob(e) : e \in Entries}

Created(j) == jobs[j].st # "none"

Call(op, result) == [op |-> op, result |-> result]

\* The dispatcher property as it would be if it handed out whatever the weak
\* reference yields, None for a dead referent.
DispatcherResultStale ==
    IF dispatcher = "unset" THEN "RuntimeError" ELSE "ok"

\* JobQueue.dispatcher: the referent, or RuntimeError when no dispatcher was
\* set or the referent is no longer alive.
DispatcherResult ==
    IF dispatcher = "alive" THEN "ok" ELSE "RuntimeError"

\* ------------------------------------------------------------- Job.run
\* runs[j] is the execution of Job.run of job j that is in flight, if any;
\* the model keeps at most one per Job.  Building the callback's context
\* (from_job) is taken not to raise.
\* errs are the calls made to dispatcher.dispatch_error, hooks the number of
\* calls to dispatcher.update_persistence, exc the exception that leaves run.
IdleRun ==
    [pc |-> "idle", outcome |-> "none", errs |-> <<>>, hooks |-> 0,
     exc |-> "none"]

NewRun ==
    [pc |-> "callback", outcome |-> "none", errs |-> <<>>, hooks |-> 0,
     exc |-> "none"]

InFlight(j) == runs[j].pc \in {"callback", "dispatch"}

\* The next Job object to be created: slots are handed out in order.
NextSlot(j) == ~Created(j) /\ \A k \in DOMAIN jobs : k < j => Created(k)

Init ==
    /\ running = FALSE
    /\ dispatcher = "unset"
    /\ jobs = [j \in JobIds |-> NoJob]
    /\ runs = [j \in JobIds |-> IdleRun]
    /\ lastCall = Call("none", "ok")

\* ------------------------------------------------------- time parsing
\* datetime.datetime.now(tz).date(): the calendar day the wall clock of the
\* zone shows.
LocalDate(instant, off) == (instant + off) \div DayLen

\* The time of day the wall clock of the zone shows.
LocalTime(instant, off) == (instant + off) % DayLen

\* datetime.datetime.combine(date, time) in the zone off, as an instant.
Combine(date, t, off) == date * DayLen + t - off

\* _parse_time_input as it would be with today's date always taken in the
\* scheduler's zone.
ParseTimeInputSchedulerDate(time, shift_day, now, tz) ==
    CASE time.kind = "none" -> NoTime
      [] time.kind = "seconds" -> DateTime(TRUE, now + time.v)
      [] time.kind = "time" ->
           LET off  == IF time.aware THEN time.off ELSE tz
               date == Combine(LocalDate(now, tz), time.v, off)
           IN  DateTime(TRUE, IF shift_day /\ date <= now THEN date + DayLen ELSE date)
      [] OTHER -> time

\* _parse_time_input(time, shift_day) called at the instant now on a queue
\* whose scheduler has the zone tz.  None stays None; a number or timedelta
\* is counted from now; a time of day is combined with today's date in its
\* own zone (the scheduler's when naive) and, with shift_day, moved one day
\* on when it is not after now; a datetime is returned as it is.
ParseTimeInput(time, shift_day, now, tz) ==
    CASE time.kind = "none" -> NoTime
      [] time.kind = "seconds" -> DateTime(TRUE, now + time.v)
      [] time.kind = "time" ->
           LET off  == IF time.aware THEN time.off ELSE tz
               date == Combine(LocalDate(now, off), time.v, off)
           IN  DateTime(TRUE, IF shift_day /\ date <= now THEN date + DayLen ELSE date)
      [] OTHER -> time

\* dt_last < dt_first: ordering an aware and a naive datetime raises
\* TypeError.
Before(a, b) ==
    IF a.aware # b.aware THEN "TypeError"
    ELSE IF a.v < b.v THEN "yes" ELSE "no"

\* The check run_repeating makes on the two parsed bounds before it reads
\* self.dispatcher: dt_last and dt_first and dt_last < dt_first.
BoundsCheck(dt_first, dt_last) ==
    IF dt_first.kind = "none" \/ dt_last.kind = "none" THEN "ok"
    ELSE CASE Before(dt_last, dt_first) = "TypeError" -> "TypeError"
           [] Before(dt_last, dt_first) = "yes" -> "ValueError"
           [] OTHER -> "ok"

\* ------------------------------------------------------------ JobQueue
\* set_dispatcher: keeps a weak reference to the dispatcher.
SetDispatcher ==
    /\ dispatcher' = "alive"
    /\ lastCall' = Call("set_dispatcher", "ok")
    /\ UNCHANGED <<running, jobs, runs>>

\* The dispatcher is deallocated.  Every handle holds the dispatcher in its
\* args tuple (args=(self.dispatcher,)), so this happens only while no Job
\* has been created.
DispatcherFreed ==
    /\ dispatcher = "alive"
    /\ \A j \in DOMAIN jobs : ~Created(j)
    /\ dispatcher' = "dead"
    /\ UNCHANGED <<running, jobs, runs, lastCall>>

\* run_once as it would be with trigger='interval' in place of 'date'.
RunOnceAsInterval(j, name) ==
    /\ NextSlot(j)
    /\ IF DispatcherResult = "ok"
         THEN jobs' = [jobs EXCEPT ![j] = AddJob(JobInit(name), j, "run_once", "interval")]
         ELSE UNCHANGED jobs
    /\ lastCall' = Call("run_once", DispatcherResult)
    /\ UNCHANGED <<running, dispatcher, runs>>

\* run_once as it would be if it passed the weak reference on unread.
RunOnceUnchecked(j, name) ==
    /\ NextSlot(j)
    /\ jobs' = [jobs EXCEPT ![j] = AddJob(JobInit(name), j, "run_once", "date")]
    /\ lastCall' = Call("run_once", "ok")
    /\ UNCHANGED <<running, dispatcher, runs>>

\* run_once: Job(...), then add_job(trigger='date', args=(self.dispatcher,)),
\* then job.job = j.  Reading self.dispatcher raises before add_job is
\* entered, and the Job built so far is dropped.
RunOnce(j, name) ==
    /\ NextSlot(j)
    /\ IF DispatcherResult = "ok"
         THEN jobs' = [jobs EXCEPT ![j] = AddJob(JobInit(name), j, "run_once", "date")]
         ELSE UNCHANGED jobs
    /\ lastCall' = Call("run_once", DispatcherResult)
    /\ UNCHANGED <<running, dispatcher, runs>>

\* The outcome of run_repeating: the bounds check comes first, reading
\* self.dispatcher for the args of add_job second.
RepeatingResult(dt_first, dt_last) ==
    IF BoundsCheck(dt_first, dt_last) # "ok"
      THEN BoundsCheck(dt_first, dt_last)
      ELSE DispatcherResult

\* run_repeating as it would be with add_job ahead of the bounds check and
\* of the read of self.dispatcher.
RunRepeatingAddsFirst(j, name, now, tz, first, last) ==
    LET dt_first == ParseTimeInput(first, FALSE, now, tz)
        dt_last  == ParseTimeInput(last, FALSE, now, tz)
    IN  /\ NextSlot(j)
        /\ jobs' = [jobs EXCEPT ![j] =
                      [AddJob(JobInit(name), j, "run_repeating", "interval")
                         EXCEPT !.start = dt_first.v]]
        /\ lastCall' = Call("run_repeating", RepeatingResult(dt_first, dt_last))
        /\ UNCHANGED <<running, dispatcher, runs>>

\* run_repeating called at the instant now, the scheduler's zone being tz:
\* Job(...), first and last parsed without shift_day, the bounds check, then
\* add_job(trigger='interval', args=(self.dispatcher,), start_date=dt_first,
\* end_date=dt_last), then job.job = j.
RunRepeating(j, name, now, tz, first, last) ==
    LET dt_first == ParseTimeInput(first, FALSE, now, tz)
        dt_last  == ParseTimeInput(last, FALSE, now, tz)
    IN  /\ NextSlot(j)
        /\ IF RepeatingResult(dt_first, dt_last) = "ok"
             THEN jobs' = [jobs EXCEPT ![j] =
                             [AddJob(JobInit(name), j, "run_repeating", "interval")
                                EXCEPT !.start = dt_first.v]]
             ELSE UNCHANGED jobs
        /\ lastCall' = Call("run_repeating", RepeatingResult(dt_first, dt_last))
        /\ UNCHANGED <<running, dispatcher, runs>>

\* run_monthly: the same with trigger='cron'; the fields of the trigger are
\* those of MonthlyTrigger below.
RunMonthly(j, name) ==
    /\ NextSlot(j)
    /\ IF DispatcherResult = "ok"
         THEN jobs' = [jobs EXCEPT ![j] =
                         AddJob(JobInit(name), j, "run_monthly", "cron")]
         ELSE UNCHANGED jobs
    /\ lastCall' = Call("run_monthly", DispatcherResult)
    /\ UNCHANGED <<running, dispatcher, runs>>

\* run_daily: the same with trigger='cron'; the fields of the trigger are
\* those of DailyTrigger below.
RunDaily(j, name) ==
    /\ NextSlot(j)
    /\ IF DispatcherResult = "ok"
         THEN jobs' = [jobs EXCEPT ![j] =
                         AddJob(JobInit(name), j, "run_daily", "cron")]
         ELSE UNCHANGED jobs
    /\ lastCall' = Call("run_daily", DispatcherResult)
    /\ UNCHANGED <<running, dispatcher, runs>>

\* The triggers a caller of run_custom names in job_kwargs.
CustomTriggers == {"date", "interval", "cron"}

\* run_custom: add_job(job, args=(self.dispatcher,), name=name, **job_kwargs).
RunCustom(j, name, trigger) ==
    /\ NextSlot(j)
    /\ IF DispatcherResult = "ok"
         THEN jobs' = [jobs EXCEPT ![j] =
                         AddJob(JobInit(name), j, "run_custom", trigger)]
         ELSE UNCHANGED jobs
    /\ lastCall' = Call("run_custom", DispatcherResult)
    /\ UNCHANGED <<running, dispatcher, runs>>

\* A caller reads JobQueue.dispatcher.
ReadDispatcher ==
    /\ lastCall' = Call("dispatcher", DispatcherResult)
    /\ UNCHANGED <<running, dispatcher, jobs, runs>>

\* start as it would be without the test of scheduler.running: the scheduler
\* raises SchedulerAlreadyRunningError when it is started twice.
StartUnguarded ==
    /\ running' = TRUE
    /\ jobs' = IF running THEN jobs
               ELSE [j \in DOMAIN jobs |->
                       IF jobs[j].st = "active" /\ jobs[j].nrt = "unset"
                         THEN [jobs[j] EXCEPT !.nrt = "time"]
                         ELSE jobs[j]]
    /\ lastCall' = Call("start", IF running THEN "SchedulerAlreadyRunningError" ELSE "ok")
    /\ UNCHANGED <<dispatcher, runs>>

\* start: scheduler.start() unless running.  The pending entries enter the
\* job store; an entry without next_run_time gets its first fire time.
\* The result "noop" stands for a return without a call to the scheduler.
Start ==
    /\ running' = TRUE
    /\ jobs' = IF running THEN jobs
               ELSE [j \in DOMAIN jobs |->
                       IF jobs[j].st = "active" /\ jobs[j].nrt = "unset"
                         THEN [jobs[j] EXCEPT !.nrt = "time"]
                         ELSE jobs[j]]
    /\ lastCall' = Call("start", IF running THEN "noop" ELSE "ok")
    /\ UNCHANGED <<dispatcher, runs>>

\* stop: scheduler.shutdown(wait) if running.  Shutting down the in-memory
\* job store drops its entries; the handles are left as they are.
Stop(wait) ==
    /\ running' = FALSE
    /\ jobs' = IF ~running THEN jobs
               ELSE [j \in DOMAIN jobs |->
                       IF j \in Entries THEN [jobs[j] EXCEPT !.st = "gone"]
                                        ELSE jobs[j]]
    /\ lastCall' = Call("stop", IF running THEN "ok" ELSE "noop")
    /\ UNCHANGED <<dispatcher, runs>>

\* ----------------------------------------------------------------- Job
\* handle.pause(): the entry stays in the store with next_run_time = None.
Pause(job) == [job EXCEPT !.st = "paused", !.nrt = "None"]

\* handle.resume(): the next fire time is computed again; a trigger that has
\* none left (more = FALSE) has its entry removed instead.
Resume(job, more) ==
    IF more THEN [job EXCEPT !.st = "active", !.nrt = "time"]
            ELSE [job EXCEPT !.st = "gone"]

\* handle.remove(): the entry leaves the store; the handle keeps the
\* next_run_time it had.
Remove(job) == [job EXCEPT !.st = "gone"]

\* Whether a resumed trigger may have no fire time left: a date trigger
\* always yields its run date, an interval trigger may be past its end date.
MayBeExhausted(job) == job.kind = "interval"

\* schedule_removal as it would be with the flag set and no engine request.
ScheduleRemovalFlagOnly(j) ==
    /\ Created(j)
    /\ jobs' = [jobs EXCEPT ![j].removed = TRUE]
    /\ lastCall' = Call("schedule_removal", "ok")
    /\ UNCHANGED <<running, dispatcher, runs>>

\* schedule_removal as it would be with the engine's lookup error swallowed.
ScheduleRemovalQuiet(j) ==
    /\ Created(j)
    /\ jobs' = IF j \in Entries
                 THEN [jobs EXCEPT ![j] = [Remove(jobs[j]) EXCEPT !.removed = TRUE]]
                 ELSE jobs
    /\ lastCall' = Call("schedule_removal", "ok")
    /\ UNCHANGED <<running, dispatcher, runs>>

\* schedule_removal as it would be if it also cancelled the runs in flight.
ScheduleRemovalCancelling(j) ==
    /\ Created(j)
    /\ IF j \in Entries
         THEN /\ jobs' = [jobs EXCEPT ![j] = [Remove(jobs[j]) EXCEPT !.removed = TRUE]]
              /\ runs' = IF InFlight(j)
                            THEN [runs EXCEPT ![j] =
                                    [@ EXCEPT !.pc = "done", !.exc = "CancelledError"]]
                            ELSE runs
              /\ lastCall' = Call("schedule_removal", "ok")
         ELSE /\ UNCHANGED <<jobs, runs>>
              /\ lastCall' = Call("schedule_removal", "JobLookupError")
    /\ UNCHANGED <<running, dispatcher>>

\* schedule_removal: self.job.remove(), which raises JobLookupError when the
\* scheduler holds no such entry, and only then self._removed = True.
ScheduleRemoval(j) ==
    /\ Created(j)
    /\ IF j \in Entries
         THEN /\ jobs' = [jobs EXCEPT ![j] = [Remove(jobs[j]) EXCEPT !.removed = TRUE]]
              /\ lastCall' = Call("schedule_removal", "ok")
         ELSE /\ UNCHANGED jobs
              /\ lastCall' = Call("schedule_removal", "JobLookupError")
    /\ UNCHANGED <<running, dispatcher, runs>>

EnabledOp(status) == IF status THEN "enable" ELSE "disable"

\* The enabled setter as it would be with the flag written before the request.
SetEnabledFlagFirst(j, status) ==
    /\ Created(j)
    /\ IF j \in Entries
         THEN /\ \E more \in BOOLEAN :
                   /\ ~more => (status /\ MayBeExhausted(jobs[j]))
                   /\ jobs' = [jobs EXCEPT ![j] =
                                 [(IF status THEN Resume(jobs[j], more) ELSE Pause(jobs[j]))
                                    EXCEPT !.enabled = status]]
              /\ lastCall' = Call(EnabledOp(status), "ok")
         ELSE /\ jobs' = [jobs EXCEPT ![j].enabled = status]
              /\ lastCall' = Call(EnabledOp(status), "JobLookupError")
    /\ UNCHANGED <<running, dispatcher, runs>>

\* The enabled setter as it would be if enabling a job also cleared _removed.
SetEnabledRevives(j, status) ==
    /\ Created(j)
    /\ IF j \in Entries
         THEN /\ \E more \in BOOLEAN :
                   /\ ~more => (status /\ MayBeExhausted(jobs[j]))
                   /\ jobs' = [jobs EXCEPT ![j] =
                                 [(IF status THEN Resume(jobs[j], more) ELSE Pause(jobs[j]))
                                    EXCEPT !.enabled = status]]
              /\ lastCall' = Call(EnabledOp(status), "ok")
         ELSE /\ jobs' = [jobs EXCEPT ![j].removed = IF status THEN FALSE ELSE @]
              /\ lastCall' = Call(EnabledOp(status), "JobLookupError")
    /\ UNCHANGED <<running, dispatcher, runs>>

\* The enabled setter: self.job.resume() or self.job.pause(), either of which
\* raises JobLookupError when the scheduler holds no such entry, and only
\* then self._enabled = status.
SetEnabled(j, status) ==
    /\ Created(j)
    /\ IF j \in Entries
         THEN /\ \E more \in BOOLEAN :
                   /\ ~more => (status /\ MayBeExhausted(jobs[j]))
                   /\ jobs' = [jobs EXCEPT ![j] =
                                 [(IF status THEN Resume(jobs[j], more) ELSE Pause(jobs[j]))
                                    EXCEPT !.enabled = status]]
              /\ lastCall' = Call(EnabledOp(status), "ok")
         ELSE /\ UNCHANGED jobs
              /\ lastCall' = Call(EnabledOp(status), "JobLookupError")
    /\ UNCHANGED <<running, dispatcher, runs>>

\* next_t: self.job.next_run_time.  The handle of an entry that never left
\* the pending list has no such attribute.
NextT(job) ==
    IF job.nrt = "unset" THEN "AttributeError" ELSE job.nrt

ReadNextT(j) ==
    /\ Created(j)
    /\ lastCall' = Call("next_t", NextT(jobs[j]))
    /\ UNCHANGED <<running, dispatcher, jobs, runs>>

\* ------------------------------------------------------------- Job.run
\* The scheduler finds the entry due and calls the Job (Job.__call__, which
\* awaits Job.run); it then keeps the entry if the trigger has a further
\* fire time (more) and removes it otherwise.  A date trigger has none, a
\* cron trigger always has one.
\* The scheduler starts no second instance of an entry while one runs.
EngineFire(j) ==
    /\ running
    /\ jobs[j].st = "active"
    /\ runs[j].pc = "idle"
    /\ \E more \in BOOLEAN :
         /\ more => jobs[j].kind # "date"
         /\ ~more => jobs[j].kind # "cron"
         /\ jobs' = [jobs EXCEPT ![j] =
                       [(IF more THEN [jobs[j] EXCEPT !.nrt = "time"]
                                 ELSE Remove(jobs[j]))
                          EXCEPT !.fired = TRUE]]
    /\ runs' = [runs EXCEPT ![j] = NewRun]
    /\ UNCHANGED <<running, dispatcher, lastCall>>

\* run as it would be if it looked at the entry and the flags first and ran
\* the callback of a scheduled job only.
DirectRunScheduledOnly(j) ==
    /\ Created(j)
    /\ dispatcher = "alive"
    /\ runs[j].pc = "idle"
    /\ j \in Entries
    /\ jobs[j].st = "active"
    /\ ~jobs[j].removed
    /\ runs' = [runs EXCEPT ![j] = NewRun]
    /\ lastCall' = Call("run", "ok")
    /\ UNCHANGED <<running, dispatcher, jobs>>

\* A caller awaits job.run(dispatcher) itself.
DirectRun(j) ==
    /\ Created(j)
    /\ dispatcher = "alive"
    /\ runs[j].pc = "idle"
    /\ runs' = [runs EXCEPT ![j] = NewRun]
    /\ lastCall' = Call("run", "ok")
    /\ UNCHANGED <<running, dispatcher, jobs>>

\* The arguments of dispatcher.dispatch_error(None, exc, job=self).
ErrorReport(j) == [update |-> "None", exc |-> "CallbackError", job |-> j]

\* The callback returns: no except clause, then the finally clause.
RunCallbackReturns(j) ==
    /\ runs[j].pc = "callback"
    /\ runs' = [runs EXCEPT ![j] =
                  [@ EXCEPT !.outcome = "return", !.hooks = @ + 1, !.pc = "done"]]
    /\ UNCHANGED <<running, dispatcher, jobs, lastCall>>

\* Job.run as it would be without the except clause.
RunCallbackRaisesUncaught(j) ==
    /\ runs[j].pc = "callback"
    /\ runs' = [runs EXCEPT ![j] =
                  [@ EXCEPT !.outcome = "raise", !.hooks = @ + 1,
                            !.exc = "CallbackError", !.pc = "done"]]
    /\ UNCHANGED <<running, dispatcher, jobs, lastCall>>

\* The callback raises an Exception: the except clause calls dispatch_error
\* and awaits it.
RunCallbackRaises(j) ==
    /\ runs[j].pc = "callback"
    /\ runs' = [runs EXCEPT ![j] =
                  [@ EXCEPT !.outcome = "raise",
                            !.errs = Append(@, ErrorReport(j)),
                            !.pc = "dispatch"]]
    /\ UNCHANGED <<running, dispatcher, jobs, lastCall>>

\* Job.run as it would be with update_persistence after the try statement
\* instead of in a finally clause.
RunCallbackCancelledNoFinally(j) ==
    /\ runs[j].pc = "callback"
    /\ runs' = [runs EXCEPT ![j] =
                  [@ EXCEPT !.outcome = "cancel", !.exc = "CancelledError",
                            !.pc = "done"]]
    /\ UNCHANGED <<running, dispatcher, jobs, lastCall>>

\* The suspended callback is cancelled: CancelledError is no Exception, so
\* the except clause is passed over and the finally clause runs.  (Where
\* CancelledError is an Exception, Python 3.7, RunCallbackRaises is the step.)
RunCallbackCancelled(j) ==
    /\ runs[j].pc = "callback"
    /\ runs' = [runs EXCEPT ![j] =
                  [@ EXCEPT !.outcome = "cancel", !.hooks = @ + 1,
                            !.exc = "CancelledError", !.pc = "done"]]
    /\ UNCHANGED <<running, dispatcher, jobs, lastCall>>

\* The ways the awaited dispatch_error can end: it returns, raises, or is
\* cancelled.
DispatchEnds == {"none", "DispatchError", "CancelledError"}

\* dispatch_error ends; the finally clause runs in each case.
RunDispatchEnds(j, exc) ==
    /\ runs[j].pc = "dispatch"
    /\ runs' = [runs EXCEPT ![j] =
                  [@ EXCEPT !.hooks = @ + 1, !.exc = exc, !.pc = "done"]]
    /\ UNCHANGED <<running, dispatcher, jobs, lastCall>>

\* The awaiting caller takes the result of the finished run.
RunReturn(j) ==
    /\ runs[j].pc = "done"
    /\ runs' = [runs EXCEPT ![j] = IdleRun]
    /\ UNCHANGED <<running, dispatcher, jobs, lastCall>>

Next ==
    \/ SetDispatcher
    \/ DispatcherFreed
    \/ ReadDispatcher
    \/ \E j \in JobIds : RunOnce(j, "None")
    \/ \E j \in JobIds : RunRepeating(j, "None", ApiNow, ApiZone, NoTime, NoTime)
    \/ Start
    \/ \E wait \in BOOLEAN : Stop(wait)
    \/ \E j \in JobIds : ScheduleRemoval(j)
    \/ \E j \in JobIds, status \in BOOLEAN : SetEnabled(j, status)
    \/ \E j \in JobIds : ReadNextT(j)
    \/ \E j \in JobIds : EngineFire(j)
    \/ \E j \in JobIds : DirectRun(j)
    \/ \E j \in JobIds : RunCallbackReturns(j)
    \/ \E j \in JobIds : RunCallbackRaises(j)
    \/ \E j \in JobIds : RunCallbackCancelled(j)
    \/ \E j \in JobIds, exc \in DispatchEnds : RunDispatchEnds(j, exc)
    \/ \E j \in JobIds : RunReturn(j)

Spec == Init /\ [][Next]_vars

\* ------------------------------------------------- the calls of the API
\* The queries and the run_* methods, called on a queue in any of the
\* conditions the lifecycle above leaves it in: jobs created under either
\* name that are active, paused, removed or (on a started queue) fired and
\* exhausted.  The queue may hold one Job more than the lifecycle is run with.
ApiJobIds == 1..(NJobs + 1)

\* The names the callers look jobs up by.
QueryNames == {CallbackName, "n", "x"}

CallValue(op, arg, value) ==
    [op |-> op, result |-> "ok", arg |-> arg, value |-> value]

\* get_jobs_by_name as it would be if it stopped at the first match.
GetJobsByNameFirst(name) ==
    LET found == {k \in JobsQuery : jobs[k].name = name}
    IN  {k \in found : \A m \in found : k <= m}

\* get_jobs_by_name(name): the members of jobs() whose name is name.
GetJobsByName(name) == {k \in JobsQuery : jobs[k].name = name}

\* A caller takes jobs().
QueryJobs ==
    /\ lastCall' = CallValue("jobs", "None", JobsQuery)
    /\ UNCHANGED <<running, dispatcher, jobs, runs>>

\* A caller takes get_jobs_by_name(name).
QueryByName(name) ==
    /\ lastCall' = CallValue("get_jobs_by_name", name, GetJobsByName(name))
    /\ UNCHANGED <<running, dispatcher, jobs, runs>>

\* The conditions a Job made in slot j by run_once may be in: as created,
\* paused through the enabled setter, removed by schedule_removal, or fired
\* by a started scheduler.
ApiShapes(j) ==
    UNION {LET made == AddJob(JobInit(name), j, "run_once", "date")
           IN  {made, Pause(made), [Remove(made) EXCEPT !.removed = TRUE]}
                 \cup (IF running THEN {[Remove(made) EXCEPT !.fired = TRUE]}
                                  ELSE {})
           : name \in NameArgs}

\* Jobs exist only on a queue whose dispatcher was set, which may have been
\* freed since, and the slots are filled in order.
ApiInit ==
    /\ running \in BOOLEAN
    /\ dispatcher \in {"unset", "alive", "dead"}
    /\ jobs \in {f \in [ApiJobIds -> {NoJob} \cup UNION {ApiShapes(j) : j \in ApiJobIds}] :
                   /\ \A j \in ApiJobIds : f[j] \in {NoJob} \cup ApiShapes(j)
                   /\ \A j, k \in ApiJobIds : (k < j /\ f[j] # NoJob) => f[k] # NoJob
                   /\ dispatcher = "unset" => \A j \in ApiJobIds : f[j] = NoJob}
    /\ runs = [j \in ApiJobIds |-> IdleRun]
    /\ lastCall = Call("none", "ok")

\* The bounds the callers of run_repeating pass as first and last: none, a
\* number of seconds, an aware or a naive datetime, and a time of day that
\* has passed today or is still to come.
BoundInputs ==
    {NoTime, Seconds(1), DateTime(TRUE, ApiNow), DateTime(TRUE, ApiNow + 1),
     DateTime(FALSE, ApiNow), Time(FALSE, 0, 0), Time(FALSE, DayLen - 1, 0)}

ApiNext ==
    \/ \E j \in ApiJobIds, name \in NameArgs : RunOnce(j, name)
    \/ \E j \in ApiJobIds, name \in NameArgs, first \in BoundInputs, last \in BoundInputs :
          RunRepeating(j, name, ApiNow, ApiZone, first, last)
    \/ \E j \in ApiJobIds, name \in NameArgs : RunMonthly(j, name)
    \/ \E j \in ApiJobIds, name \in NameArgs : RunDaily(j, name)
    \/ \E j \in ApiJobIds, name \in NameArgs, trigger \in CustomTriggers :
          RunCustom(j, name, trigger)
    \/ QueryJobs
    \/ \E name \in QueryNames : QueryByName(name)

ApiSpec == ApiInit /\ [][ApiNext]_vars

\* The methods that create jobs, as lastCall names them.
RunOps == {"run_once", "run_repeating", "run_monthly", "run_daily", "run_custom"}

\* A call of one of the run_* methods that would make the Job of slot j.
RunCall(j) ==
    \/ \E name \in NameArgs : RunOnce(j, name)
    \/ \E name \in NameArgs, first \in BoundInputs, last \in BoundInputs :
          RunRepeating(j, name, ApiNow, ApiZone, first, last)
    \/ \E name \in NameArgs : RunMonthly(j, name)
    \/ \E name \in NameArgs : RunDaily(j, name)
    \/ \E name \in NameArgs, trigger \in CustomTriggers : RunCustom(j, name, trigger)

\* ------------------------------------------------ the time computations
\* _parse_time_input and the cron triggers of run_monthly and run_daily are
\* functions of the clock and of their arguments.  A behaviour is one
\* computation: lastCall holds the arguments of a pending call, and then the
\* arguments with the value computed.  Calendar days are numbered from a
\* Monday: day 0 of the UTC calendar is one.
DaysPerWeek == 7

Weekdays == 0..(DaysPerWeek - 1)

\* The weekday of a calendar day, 0 = Monday .. 6 = Sunday, as
\* datetime.weekday() and the scheduler's day_of_week field count it.
Weekday(date) == date % DaysPerWeek

\* The values _parse_time_input is called with.
TimeInputs ==
    {NoTime, Seconds(0), Seconds(1), DateTime(TRUE, DayLen), DateTime(FALSE, DayLen)}
      \cup {Time(FALSE, v, 0) : v \in TimeOfDay}
      \cup {Time(TRUE, v, off) : v \in TimeOfDay, off \in Zones}

\* The times of day run_monthly and run_daily are called with.
TimesOfDay ==
    {Time(FALSE, v, 0) : v \in TimeOfDay}
      \cup {Time(TRUE, v, off) : v \in TimeOfDay, off \in Zones}

\* timezone=when.tzinfo or self.scheduler.timezone: the zone of a trigger.
TriggerZone(time, tz) == IF time.aware THEN time.off ELSE tz

CalcPending(op, args) == [op |-> op, result |-> "pending", args |-> args]

CalcValue(op, args, value) ==
    [op |-> op, result |-> "ok", args |-> args, value |-> value]

Pending(op) == lastCall.op = op /\ lastCall.result = "pending"

\* The calls of _parse_time_input(time, shift_day) at an instant now, on a
\* queue whose scheduler has the zone tz.
ParseCalls ==
    {CalcPending("_parse_time_input",
                 [now |-> now, tz |-> tz, time |-> time, shift_day |-> shift_day]) :
       now \in Instants, tz \in Zones, time \in TimeInputs, shift_day \in BOOLEAN}

\* _parse_time_input returns.
ParseCall ==
    /\ Pending("_parse_time_input")
    /\ lastCall' = CalcValue(lastCall.op, lastCall.args,
                             ParseTimeInput(lastCall.args.time, lastCall.args.shift_day,
                                            lastCall.args.now, lastCall.args.tz))
    /\ UNCHANGED <<running, dispatcher, jobs, runs>>

\* The day argument of run_monthly: -1 or a day of the month.
MonthDays == {-1} \cup 1..31

\* The lengths a month can have.
MonthLengths == {28, 29, 30, 31}

\* The day field of the cron trigger: 'last', or a day number.
CronDay(last, n) == [last |-> last, n |-> n]

\* run_monthly as it would be with day passed on as it is.
MonthlyDayAsGiven(day) == CronDay(FALSE, day)

\* run_monthly: day='last' if day == -1 else day.
MonthlyDay(day) == IF day = -1 THEN CronDay(TRUE, 0) ELSE CronDay(FALSE, day)

\* The days of a month of length len that a cron trigger with the day field
\* fires on: the expression 'last' matches the last day of the month, a
\* number matches the day of that number if the month has one.
CronDaysOfMonth(field, len) ==
    {d \in 1..len : IF field.last THEN d = len ELSE d = field.n}

\* The firings of a run_monthly(when, day) job in a month of length len:
\* hour, minute and second are those of when, in the trigger's zone.
MonthlyFirings(when, day, len) ==
    {[day |-> d, time |-> when.v] : d \in CronDaysOfMonth(MonthlyDay(day), len)}

\* The jobs run_monthly(when, day) makes, each taken over a month of length
\* len.
MonthlyCalls ==
    {CalcPending("run_monthly", [when |-> when, day |-> day, len |-> len]) :
       when \in TimesOfDay, day \in MonthDays, len \in MonthLengths}

\* The firings of a run_monthly job over one month are computed.
MonthlyCall ==
    /\ Pending("run_monthly")
    /\ lastCall' = CalcValue(lastCall.op, lastCall.args,
                             MonthlyFirings(lastCall.args.when, lastCall.args.day,
                                            lastCall.args.len))
    /\ UNCHANGED <<running, dispatcher, jobs, runs>>

\* The days arguments of run_daily: one weekday, two weekdays, and every
\* day, which is the default.
DaySets == {days \in SUBSET Weekdays : Cardinality(days) \in {1, 2}} \cup {Weekdays}

\* run_daily as it would be if it counted the week from Sunday.
DailyDayOfWeekFromSunday(days) == {(d + DaysPerWeek - 1) % DaysPerWeek : d \in days}

\* run_daily: day_of_week=','.join([str(d) for d in days]), which the
\* scheduler reads back as weekday numbers, 0 for Monday.
DailyDayOfWeek(days) == {d \in Weekdays : d \in days}

\* Whether a cron trigger with the day_of_week field and the time of day t in
\* the zone off fires at the instant x.
CronMatches(day_of_week, t, off, x) ==
    /\ Weekday(LocalDate(x, off)) \in day_of_week
    /\ LocalTime(x, off) = t

\* The scheduler's next fire time of a cron trigger from the instant start
\* on: the earliest firing that is not before start.
CronNext(day_of_week, t, off, start) ==
    CHOOSE x \in start..(start + DaysPerWeek * DayLen) :
        /\ CronMatches(day_of_week, t, off, x)
        /\ \A y \in start..(x - 1) : ~CronMatches(day_of_week, t, off, y)

\* The next due instant of a run_daily(time, days) job, computed at now.
\* Without an earlier firing (prev = 0) the scheduler searches from now on;
\* after a firing at prev it searches from just after prev.
DailyNext(time, days, tz, now, prev) ==
    CronNext(DailyDayOfWeek(days), time.v, TriggerZone(time, tz),
             IF prev = 0 THEN now ELSE prev + 1)

\* The firings of a run_daily job up to now, after which a next due instant
\* can be asked for; 0 stands for none.
DailyFired(time, days, tz, now) ==
    {0} \cup {x \in Instants :
                x <= now /\ CronMatches(DailyDayOfWeek(days), time.v, TriggerZone(time, tz), x)}

\* The jobs run_daily(time, days) makes, each asked at an instant now for
\* its next due instant, after its firing prev if it has fired.
DailyCalls ==
    UNION {{CalcPending("run_daily",
                        [time |-> time, days |-> days, tz |-> tz, now |-> now,
                         prev |-> prev]) :
              prev \in DailyFired(time, days, tz, now)} :
           time \in TimesOfDay, days \in DaySets, tz \in Zones, now \in Instants}

\* The next due instant of a run_daily job is computed at now.
DailyCall ==
    /\ Pending("run_daily")
    /\ lastCall' = CalcValue(lastCall.op, lastCall.args,
                             DailyNext(lastCall.args.time, lastCall.args.days,
                                       lastCall.args.tz, lastCall.args.now,
                                       lastCall.args.prev))
    /\ UNCHANGED <<running, dispatcher, jobs, runs>>

\* ------------------------------------------------------- Job comparison
\* The identifiers the scheduler gives its handles; 0 stands for a Job whose
\* job attribute is None.
HandleIds == 1..(NJobs + 1)

Callbacks == {CallbackName, "cb2"}

Contexts == {"None", "ctx"}

\* An object as the comparisons see it: its class and, for a Job, the
\* attributes __init__ sets; job is the id of the handle.
Object(class, callback, context, name, job) ==
    [class |-> class, callback |-> callback, context |-> context,
     name |-> name, job |-> job]

\* Job(callback, context, name, job): name or callback.__name__.
Wrappers ==
    {Object("Job", callback, context,
            IF name = "None" THEN callback ELSE name, job) :
       callback \in Callbacks, context \in Contexts,
       name \in {"None", "n"}, job \in {0} \cup HandleIds}

\* An object that is no Job.
NotAJob == Object("object", "None", "None", "None", 0)

\* __eq__ as it would be if it compared the names.
JobEqByName(self, other) ==
    IF other.class = "Job"
      THEN IF self.name = other.name THEN "True" ELSE "False"
      ELSE "False"

\* Job.__eq__: self.id == other.id for another Job, False otherwise.  id is
\* not an attribute of Job: __getattr__ passes it on to self.job and raises
\* AttributeError when self.job has none, which job = None does.
JobEq(self, other) ==
    IF other.class = "Job"
      THEN IF self.job = 0 \/ other.job = 0 THEN "AttributeError"
           ELSE IF self.job = other.job THEN "True" ELSE "False"
      ELSE "False"

\* Job.__lt__: return False.
JobLt(self, other) == "False"

\* The comparisons job == other and job < other.
CompareCalls ==
    {CalcPending(op, [self |-> self, other |-> other]) :
       op \in {"__eq__", "__lt__"}, self \in Wrappers,
       other \in Wrappers \cup {NotAJob}}

\* job == other returns or raises.
EqCall ==
    /\ Pending("__eq__")
    /\ lastCall' = CalcValue(lastCall.op, lastCall.args,
                             JobEq(lastCall.args.self, lastCall.args.other))
    /\ UNCHANGED <<running, dispatcher, jobs, runs>>

\* job < other returns.
LtCall ==
    /\ Pending("__lt__")
    /\ lastCall' = CalcValue(lastCall.op, lastCall.args,
                             JobLt(lastCall.args.self, lastCall.args.other))
    /\ UNCHANGED <<running, dispatcher, jobs, runs>>

CalcInit ==
    /\ running = FALSE
    /\ dispatcher = "unset"
    /\ jobs = [j \in JobIds |-> NoJob]
    /\ runs = [j \in JobIds |-> IdleRun]
    /\ lastCall \in ParseCalls \cup MonthlyCalls \cup DailyCalls \cup CompareCalls

CalcNext ==
    \/ ParseCall
    \/ MonthlyCall
    \/ DailyCall
    \/ EqCall
    \/ LtCall

CalcSpec == CalcInit /\ [][CalcNext]_vars

\* ================================================================ claims

\* C1: a run whose callback raises hands exactly one report to
\* dispatch_error, with update None, the callback's exception and the
\* running job, and the callback's exception is not the one that leaves run;
\* a run whose callback returns makes no report at all.
C1_ErrorReportedOnce ==
    \A j \in JobIds :
        /\ Len(runs[j].errs) <= 1
        /\ runs[j].outcome = "raise" =>
              /\ runs[j].errs = <<[update |-> "None", exc |-> "CallbackError", job |-> j]>>
              /\ runs[j].exc # "CallbackError"
        /\ runs[j].outcome = "return" =>
              /\ runs[j].errs = <<>>
              /\ runs[j].exc = "none"

C1_Witness ==
    \E j \in JobIds :
        /\ runs[j].pc = "done"
        /\ runs[j].outcome = "raise"
        /\ Len(runs[j].errs) = 1
        /\ runs[j].exc = "none"

\* C2: update_persistence has not been called while the callback or the
\* error report is still awaited, and has been called exactly once when run
\* has unwound, whichever way it ended.
C2_HookExactlyOnce ==
    \A j \in JobIds :
        /\ runs[j].pc \in {"idle", "callback", "dispatch"} => runs[j].hooks = 0
        /\ runs[j].pc = "done" => runs[j].hooks = 1

C2_Witness ==
    \E j \in JobIds :
        /\ runs[j].pc = "done"
        /\ runs[j].outcome = "cancel"
        /\ runs[j].exc = "CancelledError"
        /\ runs[j].hooks = 1

\* C3: the scheduler fires a job made by run_once at most once: a firing is
\* the first, starts the callback and takes the job out of jobs(); once
\* fired the job stays out of jobs() and cannot be fired again.
C3_FiringStep ==
    \A j \in JobIds :
        (jobs[j].api = "run_once" /\ EngineFire(j)) =>
            /\ ~jobs[j].fired
            /\ jobs'[j].fired
            /\ runs'[j].pc = "callback"
            /\ j \notin JobsQuery'

C3_AfterFiring ==
    \A j \in JobIds :
        (jobs[j].api = "run_once" /\ jobs[j].fired) =>
            /\ j \notin JobsQuery
            /\ ~ENABLED EngineFire(j)

C4_RemovedIsAbsent ==
    \A j \in JobIds : jobs[j].removed => (j \notin Entries /\ j \notin JobsQuery)

C4_Witness ==
    \E j \in JobIds :
        /\ jobs[j].removed
        /\ lastCall = Call("schedule_removal", "ok")

\* C5: once the removed flag of a job is set, it is set in every later state.
C5_RemovedMonotonic ==
    [][\A j \in JobIds : jobs[j].removed => jobs'[j].removed]_vars

C5_Witness ==
    \E j \in JobIds :
        /\ jobs[j].removed
        /\ lastCall = Call("enable", "JobLookupError")

\* C6, as claimed: schedule_removal on an already removed job completes
\* without an error and changes nothing.
C6_SecondRemovalCompletes ==
    [][\A j \in JobIds :
          (jobs[j].removed /\ ScheduleRemoval(j)) =>
              /\ lastCall'.result = "ok"
              /\ UNCHANGED <<running, dispatcher, jobs, runs>>]_vars

\* C6, amended: schedule_removal on an already removed job raises the
\* scheduler's JobLookupError and changes neither flags nor entries.
C6_SecondRemovalRaises ==
    [][\A j \in JobIds :
          (jobs[j].removed /\ ScheduleRemoval(j)) =>
              /\ lastCall' = Call("schedule_removal", "JobLookupError")
              /\ UNCHANGED <<running, dispatcher, jobs, runs>>]_vars

C6_Witness ==
    \E j \in JobIds :
        /\ jobs[j].removed
        /\ lastCall = Call("schedule_removal", "JobLookupError")

\* C7: on a started queue, next_t read after schedule_removal is None.
C7_NextTNoneAfterRemoval ==
    [][\A j \in JobIds :
          (running /\ jobs[j].removed /\ ReadNextT(j)) =>
              lastCall'.result = "None"]_vars

\* C8: schedule_removal leaves a run in flight as it is, that run can still
\* go on to its end, and the scheduler cannot fire a removed job.
C8_RemovalStep ==
    \A j \in JobIds :
        (InFlight(j) /\ ScheduleRemoval(j)) => UNCHANGED runs

C8_AfterRemoval ==
    \A j \in JobIds :
        jobs[j].removed =>
            /\ ~ENABLED EngineFire(j)
            /\ runs[j].pc = "callback" => ENABLED RunCallbackReturns(j)
            /\ runs[j].pc = "dispatch" => ENABLED RunDispatchEnds(j, "none")

C8_RemovalSparesRunInFlight == [][C8_RemovalStep]_vars /\ []C8_AfterRemoval

C8_Witness ==
    \E j \in JobIds :
        /\ jobs[j].removed
        /\ lastCall = Call("schedule_removal", "ok")
        /\ runs[j].pc = "done"
        /\ runs[j].hooks = 1

\* C9: the enabled setter writes the flag when the scheduler has carried out
\* the request; when the scheduler raises, the error reaches the caller and
\* the flag is left as it was.  Nothing else changes the flag.
C9_SetterStep ==
    \A j \in JobIds :
        /\ \A status \in BOOLEAN :
              SetEnabled(j, status) =>
                  IF j \in Entries
                    THEN /\ lastCall' = Call(EnabledOp(status), "ok")
                         /\ jobs'[j].enabled = status
                    ELSE /\ lastCall' = Call(EnabledOp(status), "JobLookupError")
                         /\ jobs'[j].enabled = jobs[j].enabled
        /\ jobs'[j].enabled # jobs[j].enabled =>
              /\ j \in Entries
              /\ lastCall'.op \in {"enable", "disable"}
              /\ lastCall'.result = "ok"

C9_FlagFollowsRequest == [][C9_SetterStep]_vars

C9_Witness ==
    \E j \in JobIds :
        /\ jobs[j].enabled
        /\ lastCall = Call("disable", "JobLookupError")

\* C10: for a job with a handle that has not been removed, enabled is true
\* exactly when its scheduler entry is active.
C10_EnabledMirrorsEntry ==
    \A j \in JobIds :
        (Created(j) /\ ~jobs[j].removed) =>
            (jobs[j].enabled <=> jobs[j].st = "active")

\* The instant a parsed bound stands for: a naive datetime is read in the
\* scheduler's zone.
ResolvedInstant(dt, tz) == IF dt.aware THEN dt.v ELSE dt.v - tz

\* C11: on a queue whose dispatcher is set and alive, run_repeating called
\* with both first and last raises ValueError and registers nothing whenever
\* the resolved last is earlier than the resolved first, and returns a
\* registered job whenever the two are equal.
C11_LastBeforeFirstStep ==
    \A j \in ApiJobIds, first \in BoundInputs, last \in BoundInputs :
        (/\ dispatcher = "alive"
         /\ first.kind # "none"
         /\ last.kind # "none"
         /\ RunRepeating(j, "None", ApiNow, ApiZone, first, last)) =>
            LET f == ResolvedInstant(ParseTimeInput(first, FALSE, ApiNow, ApiZone), ApiZone)
                l == ResolvedInstant(ParseTimeInput(last, FALSE, ApiNow, ApiZone), ApiZone)
            IN  /\ l < f => /\ lastCall' = Call("run_repeating", "ValueError")
                            /\ UNCHANGED jobs
                /\ l = f => /\ lastCall' = Call("run_repeating", "ok")
                            /\ j \in JobsQuery'

C11_LastBeforeFirst == [][C11_LastBeforeFirstStep]_vars

\* C12, as claimed: on a queue whose set_dispatcher was never called, every
\* run_* call succeeds and registers its job.
C12_CreatesWithoutDispatcher ==
    [][\A j \in ApiJobIds :
          (dispatcher = "unset" /\ RunCall(j)) =>
              /\ lastCall'.result = "ok"
              /\ j \in JobsQuery']_vars

\* C12, amended: on a queue whose set_dispatcher was never called, every
\* run_* call raises and registers nothing: RuntimeError from the dispatcher
\* property, or for run_repeating the error of its bounds check, which comes
\* first.
C12_NoDispatcherNoJob ==
    [][\A j \in ApiJobIds :
          (dispatcher = "unset" /\ RunCall(j)) =>
              /\ lastCall'.op \in {"run_once", "run_repeating", "run_monthly",
                                  "run_daily", "run_custom"}
              /\ lastCall'.result \in
                    IF lastCall'.op = "run_repeating"
                      THEN {"RuntimeError", "ValueError", "TypeError"}
                      ELSE {"RuntimeError"}
              /\ UNCHANGED jobs
              /\ JobsQuery' = {}]_vars

C12_Witness ==
    /\ dispatcher = "unset"
    /\ lastCall = Call("run_custom", "RuntimeError")
    /\ JobsQuery = {}

\* C13: a read of JobQueue.dispatcher returns the dispatcher exactly when one
\* was set and is still alive; when none was set, or the one set has been
\* deallocated, the read raises RuntimeError.  The read changes nothing.
C13_DispatcherOrRuntimeError ==
    [][ReadDispatcher =>
          /\ dispatcher = "alive" => lastCall' = Call("dispatcher", "ok")
          /\ dispatcher \in {"unset", "dead"} =>
                lastCall' = Call("dispatcher", "RuntimeError")
          /\ UNCHANGED <<running, dispatcher, jobs, runs>>]_vars

C13_Witness ==
    /\ dispatcher = "dead"
    /\ lastCall = Call("dispatcher", "RuntimeError")

\* C14: start asks the scheduler to start exactly when it is not running and
\* stop asks it to shut down exactly when it is running; neither raises, and
\* a start on a started queue, or a stop on a stopped one, changes no job,
\* run or flag.
C14_StartStopStep ==
    /\ Start =>
          /\ lastCall' = Call("start", IF running THEN "noop" ELSE "ok")
          /\ running'
          /\ running => UNCHANGED <<running, dispatcher, jobs, runs>>
    /\ \A wait \in BOOLEAN :
          Stop(wait) =>
              /\ lastCall' = Call("stop", IF running THEN "ok" ELSE "noop")
              /\ ~running'
              /\ ~running => UNCHANGED <<running, dispatcher, jobs, runs>>

C14_StartStopIdempotent == [][C14_StartStopStep]_vars

C14_Witness ==
    /\ running
    /\ lastCall = Call("start", "noop")
    /\ \E j \in JobIds : jobs[j].st = "active" /\ jobs[j].fired

\* C15: jobs() returns exactly the Jobs whose entries are registered: paused
\* ones are in it, removed ones and fired run_once jobs are not;
\* get_jobs_by_name(n) returns exactly the members of jobs() whose name is n,
\* however many they are.
C15_QueryResults ==
    LET registered == {j \in DOMAIN jobs : jobs[j].st \in {"active", "paused"}}
    IN  /\ \A j \in DOMAIN jobs :
              /\ jobs[j].st = "paused" => j \in registered
              /\ jobs[j].removed => j \notin registered
              /\ (jobs[j].api = "run_once" /\ jobs[j].fired) => j \notin registered
        /\ lastCall.op = "jobs" => lastCall.value = registered
        /\ lastCall.op = "get_jobs_by_name" =>
              lastCall.value = {j \in registered : jobs[j].name = lastCall.arg}

\* C15, continued: a job made by any run_* method without a name, or with an
\* empty one, is found under the name of its callback.
C15_UnnamedStep ==
    \A j \in ApiJobIds, name \in {"None", ""} :
        (/\ \/ RunOnce(j, name)
            \/ RunRepeating(j, name, ApiNow, ApiZone, NoTime, NoTime)
            \/ RunMonthly(j, name)
            \/ RunDaily(j, name)
            \/ \E trigger \in CustomTriggers : RunCustom(j, name, trigger)
         /\ lastCall'.result = "ok") =>
            /\ j \in GetJobsByName(CallbackName)'
            /\ \A n \in QueryNames \ {CallbackName} : j \notin GetJobsByName(n)'

C15_JobsAndNames == []C15_QueryResults /\ [][C15_UnnamedStep]_vars

C15_Witness ==
    /\ lastCall.op = "get_jobs_by_name"
    /\ lastCall.arg = CallbackName
    /\ Cardinality(lastCall.value) > 1
    /\ \E j \in lastCall.value : jobs[j].st = "paused"
    /\ \E j \in lastCall.value : jobs[j].api = "run_daily"

\* C16: a Job that is registered, returned by jobs() or get_jobs_by_name(),
\* or that the scheduler can fire, holds the handle of its own entry; a Job
\* gets its handle in the run_* call that creates it, and a handle once set
\* never changes.
C16_HandleBeforeReachable ==
    \A j \in JobIds :
        (\/ j \in Entries
         \/ j \in JobsQuery
         \/ j \in GetJobsByName(jobs[j].name)
         \/ ENABLED EngineFire(j)
         \/ Created(j)) => jobs[j].handle = j

C16_HandleStep ==
    \A j \in JobIds :
        /\ jobs[j].handle # 0 => jobs'[j].handle = jobs[j].handle
        /\ (jobs[j].handle = 0 /\ jobs'[j].handle # 0) =>
              /\ ~Created(j)
              /\ lastCall'.op \in {"run_once", "run_repeating"}
              /\ lastCall'.result = "ok"

C16_HandleSetOnce == []C16_HandleBeforeReachable /\ [][C16_HandleStep]_vars

C16_Witness ==
    \E j \in JobIds :
        /\ jobs[j].handle = j
        /\ jobs[j].st = "paused"
        /\ jobs[j].fired
        /\ j \in JobsQuery

\* C17: _parse_time_input of a time of day t with shift_day returns an aware
\* datetime that reads t on the wall clock of t's zone (the scheduler's when
\* t is naive); its date there is tomorrow when t on today's date is not
\* after now and today otherwise; and it is after now.
C17_ShiftedTimeOfDay ==
    (/\ lastCall.op = "_parse_time_input"
     /\ lastCall.result = "ok"
     /\ lastCall.args.time.kind = "time"
     /\ lastCall.args.shift_day) =>
        LET a       == lastCall.args
            off     == IF a.time.aware THEN a.time.off ELSE a.tz
            today   == LocalDate(a.now, off)
            atToday == today * DayLen + a.time.v - off
            r       == lastCall.value
        IN  /\ r.kind = "datetime"
            /\ r.aware
            /\ LocalTime(r.v, off) = a.time.v
            /\ LocalDate(r.v, off) = IF atToday <= a.now THEN today + 1 ELSE today
            /\ r.v > a.now

C17_Witness ==
    /\ lastCall.op = "_parse_time_input"
    /\ lastCall.result = "ok"
    /\ lastCall.args.time.kind = "time"
    /\ lastCall.args.shift_day
    /\ lastCall.args.time.aware
    /\ LocalDate(lastCall.args.now, lastCall.args.time.off)
          # LocalDate(lastCall.args.now, lastCall.args.tz)
    /\ LocalDate(lastCall.value.v, lastCall.args.time.off)
          = LocalDate(lastCall.args.now, lastCall.args.time.off) + 1

\* C18: the start date run_repeating hands to the scheduler for a first given
\* as a time of day is the one run_once computes for its when, that time
\* today or tomorrow if it has passed, and so is not before the call.
C18_FirstNotBeforeCall ==
    [][\A j \in ApiJobIds, first \in BoundInputs, last \in BoundInputs :
          (/\ first.kind = "time"
           /\ RunRepeating(j, "None", ApiNow, ApiZone, first, last)
           /\ lastCall'.result = "ok") =>
              /\ jobs'[j].start = ParseTimeInput(first, TRUE, ApiNow, ApiZone).v
              /\ jobs'[j].start >= ApiNow]_vars

\* C19: a run_monthly job with day -1 fires in a month of every length, once,
\* on the last day at the time of day given; a job with a day number greater
\* than the length of the month does not fire in that month.
C19_MonthlyLastDay ==
    (lastCall.op = "run_monthly" /\ lastCall.result = "ok") =>
        LET a == lastCall.args
        IN  /\ a.day = -1 =>
                  lastCall.value = {[day |-> a.len, time |-> a.when.v]}
            /\ (a.day \in 1..31 /\ a.day > a.len) => lastCall.value = {}
            /\ (a.day \in 1..31 /\ a.day <= a.len) =>
                  lastCall.value = {[day |-> a.day, time |-> a.when.v]}

C19_Witness ==
    /\ lastCall.op = "run_monthly"
    /\ lastCall.result = "ok"
    /\ lastCall.args.day = -1
    /\ lastCall.args.len = 29
    /\ \E f \in lastCall.value : f.day = 29

\* C20, as claimed: the next due instant of a run_daily job falls on one of
\* its weekdays at its time of day in the trigger's zone, and is after the
\* instant at which it is computed.
C20_NextDueAfterNow ==
    (lastCall.op = "run_daily" /\ lastCall.result = "ok") =>
        LET a   == lastCall.args
            off == IF a.time.aware THEN a.time.off ELSE a.tz
        IN  /\ LocalDate(lastCall.value, off) % 7 \in a.days
            /\ LocalTime(lastCall.value, off) = a.time.v
            /\ lastCall.value > a.now

\* C20, amended: the next due instant of a run_daily job falls on one of its
\* weekdays at its time of day in the trigger's zone; for a job that has not
\* fired it is not before the instant at which it is computed, and a firing
\* due at that very instant is the one returned; for a job that has fired it
\* is after the last firing.
C20_NextDueNotBeforeNow ==
    (lastCall.op = "run_daily" /\ lastCall.result = "ok") =>
        LET a   == lastCall.args
            off == IF a.time.aware THEN a.time.off ELSE a.tz
            due(x) == LocalDate(x, off) % 7 \in a.days /\ LocalTime(x, off) = a.time.v
        IN  /\ due(lastCall.value)
            /\ a.prev = 0 => /\ lastCall.value >= a.now
                             /\ due(a.now) => lastCall.value = a.now
            /\ a.prev # 0 => lastCall.value > a.prev

C20_Witness ==
    /\ lastCall.op = "run_daily"
    /\ lastCall.result = "ok"
    /\ lastCall.args.prev = 0
    /\ lastCall.value = lastCall.args.now
    /\ Cardinality(lastCall.args.days) = 2

\* C21: two Jobs that have handles are equal exactly when the handles have
\* the same id, whatever their callbacks, contexts and names are; a Job is
\* not equal to an object that is no Job; job < other is False for every
\* pair.
C21_EqualityByHandle ==
    /\ (lastCall.op = "__eq__" /\ lastCall.result = "ok") =>
          LET self  == lastCall.args.self
              other == lastCall.args.other
          IN  /\ (other.class = "Job" /\ self.job # 0 /\ other.job # 0) =>
                    lastCall.value = (IF self.job = other.job THEN "True" ELSE "False")
              /\ other.class # "Job" => lastCall.value = "False"
    /\ (lastCall.op = "__lt__" /\ lastCall.result = "ok") =>
          lastCall.value = "False"

C21_Witness ==
    /\ lastCall.op = "__eq__"
    /\ lastCall.result = "ok"
    /\ lastCall.args.other.class = "Job"
    /\ lastCall.args.self.job = lastCall.args.other.job
    /\ lastCall.args.self.job # 0
    /\ lastCall.args.self.name # lastCall.args.other.name
    /\ lastCall.args.self.callback # lastCall.args.other.callback
    /\ lastCall.value = "True"

\* An entry the scheduler dropped because its trigger had no fire time left:
\* the job has fired, is no entry any more and was never removed by its
\* owner, on a scheduler that has not been shut down since.
Exhausted(j) ==
    /\ running
    /\ jobs[j].fired
    /\ jobs[j].st = "gone"
    /\ ~jobs[j].removed

\* C22: only schedule_removal changes the removed flag; a firing that drops
\* the entry of an exhausted trigger leaves the flag False, so that the job
\* is absent from jobs() without being removed; and next_t of such a job is
\* None.
C22_ExhaustionLeavesRemovedFalse ==
    [][\A j \in JobIds :
          /\ jobs'[j].removed # jobs[j].removed => ScheduleRemoval(j)
          /\ (EngineFire(j) /\ jobs'[j].st = "gone") =>
                /\ ~jobs'[j].removed
                /\ j \notin JobsQuery'
          /\ (Exhausted(j) /\ ReadNextT(j)) => lastCall'.result = "None"]_vars

\* C23: a run_* call that raises, run_repeating on its bounds or any run_*
\* on a dispatcher that is unset or dead, registers no entry: the job store
\* and the result of jobs() are what they were before the call, and the
\* rejected job is not among them.
C23_FailedCallStep ==
    lastCall'.op \in RunOps =>
        /\ dispatcher # "alive" => lastCall'.result # "ok"
        /\ lastCall'.result # "ok" =>
              /\ lastCall'.result \in {"ValueError", "TypeError", "RuntimeError"}
              /\ UNCHANGED jobs
              /\ JobsQuery' = JobsQuery
              /\ \A j \in ApiJobIds : NextSlot(j) => j \notin JobsQuery'

C23_FailedCallRegistersNothing == [][C23_FailedCallStep]_vars

C23_Witness ==
    /\ lastCall = Call("run_repeating", "ValueError")
    /\ dispatcher = "alive"
    /\ JobsQuery # {}
    /\ \E j \in ApiJobIds : ~Created(j)

\* The steps of Job.run of job j, from the call to the return.
RunStep(j) ==
    \/ DirectRun(j)
    \/ RunCallbackReturns(j)
    \/ RunCallbackRaises(j)
    \/ RunCallbackCancelled(j)
    \/ \E exc \in DispatchEnds : RunDispatchEnds(j, exc)
    \/ RunReturn(j)

\* C24: a caller who holds a dispatcher can run any created job that is not
\* running, whether its entry is active, paused, removed or dropped and
\* whatever its flags are; the call starts the callback; and no step of run
\* changes the job's removed, enabled, name or handle, or the entries of the
\* scheduler.
C24_RunIgnoresSchedule ==
    /\ [](\A j \in JobIds :
            (Created(j) /\ dispatcher = "alive" /\ runs[j].pc = "idle") =>
                ENABLED DirectRun(j))
    /\ [][\A j \in JobIds :
            /\ DirectRun(j) => runs'[j].pc = "callback"
            /\ RunStep(j) =>
                  /\ jobs'[j].removed = jobs[j].removed
                  /\ jobs'[j].enabled = jobs[j].enabled
                  /\ jobs'[j].name = jobs[j].name
                  /\ jobs'[j].handle = jobs[j].handle
                  /\ UNCHANGED jobs
                  /\ Entries' = Entries
                  /\ JobsQuery' = JobsQuery]_vars

C24_Witness ==
    \E j \in JobIds :
        /\ lastCall = Call("run", "ok")
        /\ jobs[j].removed
        /\ j \notin Entries
        /\ runs[j].pc = "callback"

====
